---- MODULE Spec2Model ----
(***************************************************************************)
(* A model of go-tripper's circuit monitor.  The repository holds three    *)
(* evolutions of the monitor, and the model holds all three; impl says    *)
(* which one a behaviour runs:                                             *)
(*   "MonitorImplementation" : src/tripper.go 1-253, the Tripper registry  *)
(*       with a mutex-guarded UpdateStatus and a lazily started ticker;    *)
(*   "Monitor" : src/tripper.go 255-450, the package-level API with the    *)
(*       wall-clock aligned window (updateStatusByMonitor);                *)
(*   "CircuitImplementation" : src/README.md 455-668, ConfigureCircuit     *)
(*       with the CONSECUTIVE policy and a ticker started at construction. *)
(* Spec runs one monitor under concurrent UpdateStatus calls, its ticker    *)
(* and the clock.  SpecRegistry runs the registration: AddMonitor on the   *)
(* registry of the first two, ConfigureCircuit for the third, and status   *)
(* updates of the registered monitors.                                     *)
(* Time is in seconds.  Threshold is a float32 in the source and holds     *)
(* whole numbers here, for which float32(n) and int64(x) are exact.        *)
(***************************************************************************)
EXTENDS Integers, FiniteSets, Sequences, TLC

VARIABLES
    impl,               \* which evolution of the monitor runs
    Options,            \* MonitorOptions / CircuitOptions / the Monitor's settings
                        \* (in SpecRegistry: the options under test)
    FailureCount,
    SuccessCount,
    CircuitOpen,
    LastCapturedAt,
    CircuitOpenedSince,
    ConsecutiveCounter, \* CircuitImplementation only
    Ticker,             \* 0: nil; else the instant of the ticker's next tick
    Mutex,              \* 0: unlocked; else the caller holding it
    now,                \* the wall clock, time.Now().Unix()
    pc,                 \* pc[p]: where caller p is in UpdateStatus
    success,            \* success[p]: the argument of p's call
    tmp,                \* tmp[p]: the counter value p read for its ++
    currentStateOfCircuit, \* currentStateOfCircuit[p]: CircuitOpen as p's call found it
    decision,           \* decision[p]: the outcome of p's threshold comparison
    tpc,                \* where the ticker goroutine is in its loop body
    crashed,            \* a goroutine panicked: the process is gone
    nTrue,              \* UpdateStatus(true) calls that have returned
    nFalse,             \* UpdateStatus(false) calls that have returned
    ticks,              \* ticks the ticker goroutine has received
    openAtTick,         \* CircuitOpen as the last tick found it
    touched,            \* an UpdateStatus call has run since the last tick arrived
    openCalls,          \* invocations of OnCircuitOpen
    closedCalls,        \* invocations of OnCircuitClosed
    \* The registry: Tripper.Circuits / the package-level circuits map.
    Circuits,           \* Circuits[name]: 0 when absent, else the monitor's address
    monitors,           \* monitors[a]: the monitor allocated at address a
    apc,                \* apc[p]: where caller p is in AddMonitor
    acall,              \* acall[p]: the argument of p's AddMonitor call
    aret,               \* aret[p]: what p's last AddMonitor call returned
    amon,               \* amon[p]: the monitor p's call built / was returned
    adds,               \* adds[p]: AddMonitor / ConfigureCircuit calls p has made
    added,              \* added[name]: calls for this name that returned no error
    updates,            \* status updates made through the registry
    fatal               \* the runtime threw "concurrent map writes" or the like

vars == <<impl, Options, FailureCount, SuccessCount, CircuitOpen, LastCapturedAt,
          CircuitOpenedSince, ConsecutiveCounter, Ticker, Mutex, now, pc, success,
          tmp, currentStateOfCircuit, decision, tpc, crashed, nTrue, nFalse,
          ticks, openAtTick, touched, openCalls, closedCalls,
          Circuits, monitors, apc, acall, aret, amon, adds, added, updates, fatal>>

\* The variables of one monitor under load, and those of the registry.
monvars == <<impl, Options, FailureCount, SuccessCount, CircuitOpen, LastCapturedAt,
             CircuitOpenedSince, ConsecutiveCounter, Ticker, Mutex, now, pc, success,
             tmp, currentStateOfCircuit, decision, tpc, crashed, nTrue, nFalse,
             ticks, openAtTick, touched, openCalls, closedCalls>>

regvars == <<Circuits, monitors, apc, acall, aret, amon, adds, added, updates, fatal>>

---------------------------------------------------------------------------
\* Bounds of the model.

\* UpdateStatus calls in one behaviour.
MaxCalls == 3
\* Half intervals the clock moves on by.
MaxClock == 2

\* AddMonitor / ConfigureCircuit calls in one behaviour.
MaxAdds == 2
\* Status updates through the registry in one behaviour.
MaxUpdates == 2

\* The goroutines that call UpdateStatus, or AddMonitor.
Callers == {1, 2}

\* The monitor names in use.
Names == {"a", "b"}

---------------------------------------------------------------------------
\* Program constants.

ThresholdCount == "COUNT"
ThresholdPercentage == "PERCENTAGE"
ThresholdConsecutive == "CONSECUTIVE"

MonitorImpl == "MonitorImplementation"
LegacyImpl == "Monitor"
CircuitImpl == "CircuitImplementation"

Impls == {MonitorImpl, LegacyImpl, CircuitImpl}

\* The shortest interval AddMonitor accepts; every monitor under load uses it.
IntervalInSeconds == 60

\* The intervals tried at registration: one below ConfigureCircuit's minimum
\* of 5 (and AddMonitor's of 60), 60 itself, and one that is no multiple of 60.
Intervals == {4, IntervalInSeconds, 90}

thresholdTypes(i) ==
    IF i = CircuitImpl
    THEN {ThresholdCount, ThresholdPercentage, ThresholdConsecutive}
    ELSE {ThresholdCount, ThresholdPercentage}

\* The options tried.  Counts and run lengths 0..2; the percentages at the
\* truncation cases 1/3 (33 against 34) and 1/2 (50 against 50), 0, and 101,
\* which validation rejects.  OnCircuitOpen, OnCircuitClosed: TRUE when the
\* callback is supplied, FALSE when it is nil; both or neither.
Thresholds(type) ==
    IF type = ThresholdPercentage THEN {0, 34, 50, 101} ELSE {0, 1, 2}

MinimumCounts == {0, 2, 3}

CandidateOptions ==
    {o \in [ThresholdType : {ThresholdCount, ThresholdPercentage, ThresholdConsecutive},
            Threshold : {0, 1, 2, 34, 50, 101},
            MinimumCount : MinimumCounts,
            IntervalInSeconds : Intervals,
            OnCircuitOpen : BOOLEAN,
            OnCircuitClosed : BOOLEAN] :
        /\ o.Threshold \in Thresholds(o.ThresholdType)
        /\ o.OnCircuitOpen = o.OnCircuitClosed}

\* A faulty validation, without the check of the minimum count against the
\* count threshold.
Validate_NoMinimumOverThreshold(i, o) ==
    /\ o.ThresholdType \in thresholdTypes(i)
    /\ ~(o.ThresholdType = ThresholdPercentage /\ (o.Threshold < 0 \/ o.Threshold > 100))
    /\ ~(o.ThresholdType = ThresholdCount /\ o.Threshold <= 0)
    /\ ~(o.MinimumCount < 1)
    /\ ~(o.IntervalInSeconds < (IF i = CircuitImpl THEN 5 ELSE 60))
    /\ (i # CircuitImpl) => ~(o.IntervalInSeconds % 60 # 0)

\* AddMonitor's / ConfigureCircuit's validation: TRUE when no error is returned.
Validate(i, o) ==
    /\ o.ThresholdType \in thresholdTypes(i)
    /\ ~(o.ThresholdType = ThresholdPercentage /\ (o.Threshold < 0 \/ o.Threshold > 100))
    /\ ~(o.ThresholdType = ThresholdCount /\ o.Threshold <= 0)
    /\ ~(o.MinimumCount < 1)
    /\ (i # LegacyImpl) =>
          ~(o.ThresholdType = ThresholdCount /\ o.MinimumCount <= o.Threshold)
    /\ ~(o.IntervalInSeconds < (IF i = CircuitImpl THEN 5 ELSE 60))
    /\ (i # CircuitImpl) => ~(o.IntervalInSeconds % 60 # 0)

---------------------------------------------------------------------------
\* Pure helpers of the status update.

\* time.Now().Round(time.Minute).Unix(): the nearest whole minute, halves up.
RoundMinute(t) == ((t + 30) \div 60) * 60

\* getStartOfIntervalTimestamp at instant t.
getStartOfIntervalTimestamp(t) ==
    LET rounded == RoundMinute(t)
        roundedTime == IF rounded - t > 0 THEN rounded - 60 ELSE rounded
        remainder == roundedTime % IntervalInSeconds
    IN  roundedTime - remainder

\* A faulty gate, one outcome early.
BelowMinimum_OffByOne(o, s, f) == s + f < o.MinimumCount - 1

\* The guard of "if m.SuccessCount+m.FailureCount < m.Options.MinimumCount { return }".
BelowMinimum(o, s, f) == s + f < o.MinimumCount

\* failurePercentage := (m.FailureCount * 100) / totalRequests, int64 division.
failurePercentage(f, s) == (f * 100) \div (f + s)

\* A faulty comparison that opens the circuit only above the threshold.
ThresholdReached_Strict(o, f, s, run) ==
    CASE o.ThresholdType = ThresholdCount -> f > o.Threshold
      [] o.ThresholdType = ThresholdPercentage -> failurePercentage(f, s) > o.Threshold
      [] OTHER -> run > o.Threshold

\* A faulty comparison that opens the circuit only at the threshold itself.
ThresholdReached_Exactly(o, f, s, run) ==
    CASE o.ThresholdType = ThresholdCount -> f = o.Threshold
      [] o.ThresholdType = ThresholdPercentage -> failurePercentage(f, s) = o.Threshold
      [] OTHER -> run = o.Threshold

\* The threshold comparison of MonitorImplementation.UpdateStatus and of
\* CircuitImplementation.UpdateStatus: the value CircuitOpen is then set to.
ThresholdReached(o, f, s, run) ==
    CASE o.ThresholdType = ThresholdCount -> f >= o.Threshold
      [] o.ThresholdType = ThresholdPercentage -> failurePercentage(f, s) >= o.Threshold
      [] OTHER -> run >= o.Threshold

\* The threshold comparison of updateStatusByMonitor.
ThresholdExceeded(o, f, s) ==
    IF o.ThresholdType = ThresholdCount
    THEN f > o.Threshold
    ELSE failurePercentage(f, s) > o.Threshold

\* A faulty increment: the branches swapped.
Counted_Swapped(s, f, ok, v) == IF ok THEN <<s, v + 1>> ELSE <<v + 1, f>>

\* "if success { m.SuccessCount++ } else { m.FailureCount++ }" storing v + 1,
\* v the value the increment loaded: the counters <<success, failure>> after it.
Counted(s, f, ok, v) == IF ok THEN <<v + 1, f>> ELSE <<s, v + 1>>

\* A faulty UpdateStatus that takes no lock.
MutexFree_NoLock == TRUE

\* m.Mutex.Lock() returns only when no caller holds the mutex.
MutexFree == Mutex = 0

InFlight == Cardinality({p \in Callers : pc[p] # "idle"})

Locked == impl \in {MonitorImpl, CircuitImpl}

---------------------------------------------------------------------------
\* The registry before any AddMonitor call: Configure's make(map[string]Monitor),
\* the package's "var circuits = make(map[string]*Monitor)".

\* The zero value of the options, and of a call's argument.
NoOptions ==
    [ThresholdType |-> "", Threshold |-> 0, MinimumCount |-> 0,
     IntervalInSeconds |-> 0, OnCircuitOpen |-> FALSE, OnCircuitClosed |-> FALSE]

NoCall == [Name |-> "", Options |-> NoOptions]

RegistryEmpty ==
    /\ Circuits = [n \in Names |-> 0]
    /\ monitors = <<>>
    /\ apc = [p \in Callers |-> "idle"]
    /\ acall = [p \in Callers |-> NoCall]
    /\ aret = [p \in Callers |-> "none"]
    /\ amon = [p \in Callers |-> 0]
    /\ adds = [p \in Callers |-> 0]
    /\ added = [n \in Names |-> 0]
    /\ updates = 0
    /\ fatal = FALSE

---------------------------------------------------------------------------
\* The state after AddMonitor / ConfigureCircuit has returned the monitor.

Init ==
    /\ impl \in Impls
    /\ Options \in {o \in CandidateOptions :
                      /\ Validate(impl, o)
                      /\ o.IntervalInSeconds = IntervalInSeconds
                      /\ impl = LegacyImpl => ~o.OnCircuitOpen /\ ~o.OnCircuitClosed}
    /\ FailureCount = 0
    /\ SuccessCount = 0
    /\ CircuitOpen = FALSE
    /\ LastCapturedAt = 0
    /\ CircuitOpenedSince = 0
    /\ ConsecutiveCounter = 0
    /\ now = IntervalInSeconds
    /\ Ticker = IF impl = CircuitImpl THEN now + IntervalInSeconds ELSE 0
    /\ Mutex = 0
    /\ pc = [p \in Callers |-> "idle"]
    /\ success = [p \in Callers |-> FALSE]
    /\ tmp = [p \in Callers |-> 0]
    /\ currentStateOfCircuit = [p \in Callers |-> FALSE]
    /\ decision = [p \in Callers |-> FALSE]
    /\ tpc = "wait"
    /\ crashed = FALSE
    /\ nTrue = 0
    /\ nFalse = 0
    /\ ticks = 0
    /\ openAtTick = FALSE
    /\ touched = FALSE
    /\ openCalls = 0
    /\ closedCalls = 0
    /\ RegistryEmpty

---------------------------------------------------------------------------
\* UpdateStatus of MonitorImplementation and of CircuitImplementation, one
\* action per shared-memory step of the caller.

\* The call returns: the deferred m.Mutex.Unlock() runs and the call's locals die.
Return(p) ==
    /\ Mutex' = 0
    /\ pc' = [pc EXCEPT ![p] = "idle"]
    /\ nTrue' = IF success[p] THEN nTrue + 1 ELSE nTrue
    /\ nFalse' = IF success[p] THEN nFalse ELSE nFalse + 1
    /\ success' = [success EXCEPT ![p] = FALSE]
    /\ tmp' = [tmp EXCEPT ![p] = 0]
    /\ currentStateOfCircuit' = [currentStateOfCircuit EXCEPT ![p] = FALSE]
    /\ decision' = [decision EXCEPT ![p] = FALSE]

\* m.Mutex.Lock(); the lazy start of the ticker; m.LastCapturedAt = getTimestamp().
UpdateStatus_Lock(p, s) ==
    /\ ~crashed
    /\ Locked
    /\ pc[p] = "idle"
    /\ nTrue + nFalse + InFlight < MaxCalls
    /\ MutexFree
    /\ Mutex' = p
    /\ success' = [success EXCEPT ![p] = s]
    /\ Ticker' = IF impl = MonitorImpl /\ Ticker = 0
                 THEN now + IntervalInSeconds
                 ELSE Ticker
    /\ LastCapturedAt' = now
    /\ touched' = TRUE
    /\ pc' = [pc EXCEPT ![p] = IF impl = CircuitImpl THEN "run" ELSE "read"]
    /\ UNCHANGED <<regvars, impl, Options, FailureCount, SuccessCount, CircuitOpen,
                   CircuitOpenedSince, ConsecutiveCounter, now, tmp,
                   currentStateOfCircuit, decision, tpc, crashed, nTrue,
                   nFalse, ticks, openAtTick, openCalls, closedCalls>>

\* m.ConsecutiveCounter = 0 on success, m.ConsecutiveCounter++ on failure.
UpdateStatus_Run(p) ==
    /\ ~crashed
    /\ pc[p] = "run"
    /\ ConsecutiveCounter' = IF success[p] THEN 0 ELSE ConsecutiveCounter + 1
    /\ pc' = [pc EXCEPT ![p] = "read"]
    /\ UNCHANGED <<regvars, impl, Options, FailureCount, SuccessCount, CircuitOpen,
                   LastCapturedAt, CircuitOpenedSince, Ticker, Mutex, now, success,
                   tmp, currentStateOfCircuit, decision, tpc, crashed, nTrue,
                   nFalse, ticks, openAtTick, touched, openCalls, closedCalls>>

\* The load of m.SuccessCount++ / m.FailureCount++.
UpdateStatus_Read(p) ==
    /\ ~crashed
    /\ pc[p] = "read"
    /\ tmp' = [tmp EXCEPT ![p] = IF success[p] THEN SuccessCount ELSE FailureCount]
    /\ pc' = [pc EXCEPT ![p] = "write"]
    /\ UNCHANGED <<regvars, impl, Options, FailureCount, SuccessCount, CircuitOpen,
                   LastCapturedAt, CircuitOpenedSince, ConsecutiveCounter, Ticker,
                   Mutex, now, success, currentStateOfCircuit, decision, tpc,
                   crashed, nTrue, nFalse, ticks, openAtTick, touched, openCalls, closedCalls>>

\* The store of m.SuccessCount++ / m.FailureCount++.
UpdateStatus_Write(p) ==
    /\ ~crashed
    /\ pc[p] = "write"
    /\ SuccessCount' = Counted(SuccessCount, FailureCount, success[p], tmp[p])[1]
    /\ FailureCount' = Counted(SuccessCount, FailureCount, success[p], tmp[p])[2]
    /\ pc' = [pc EXCEPT ![p] = "minimum"]
    /\ UNCHANGED <<regvars, impl, Options, CircuitOpen, LastCapturedAt, CircuitOpenedSince,
                   ConsecutiveCounter, Ticker, Mutex, now, success, tmp,
                   currentStateOfCircuit, decision, tpc, crashed, nTrue,
                   nFalse, ticks, openAtTick, touched, openCalls, closedCalls>>

\* The minimum-count gate: return early, or go on to the threshold
\* (CircuitImplementation reads currentStateOfCircuit here; for
\* MonitorImplementation the variable only records that value).
UpdateStatus_Minimum(p) ==
    /\ ~crashed
    /\ pc[p] = "minimum"
    /\ IF BelowMinimum(Options, SuccessCount, FailureCount)
       THEN Return(p)
       ELSE /\ pc' = [pc EXCEPT ![p] = "evaluate"]
            /\ currentStateOfCircuit' = [currentStateOfCircuit EXCEPT ![p] = CircuitOpen]
            /\ UNCHANGED <<Mutex, nTrue, nFalse, success, tmp, decision>>
    /\ UNCHANGED <<regvars, impl, Options, FailureCount, SuccessCount, CircuitOpen,
                   LastCapturedAt, CircuitOpenedSince, ConsecutiveCounter, Ticker,
                   now, tpc, crashed, ticks, openAtTick, touched, openCalls, closedCalls>>

\* The threshold comparison reads the counters; a percentage over zero
\* requests is an integer division by zero, which panics.
UpdateStatus_Evaluate(p) ==
    /\ ~crashed
    /\ pc[p] = "evaluate"
    /\ IF Options.ThresholdType = ThresholdPercentage /\ FailureCount + SuccessCount = 0
       THEN /\ crashed' = TRUE
            /\ UNCHANGED <<pc, decision>>
       ELSE /\ decision' = [decision EXCEPT ![p] =
                    ThresholdReached(Options, FailureCount, SuccessCount,
                                     ConsecutiveCounter)]
            /\ pc' = [pc EXCEPT ![p] = "set"]
            /\ UNCHANGED crashed
    /\ UNCHANGED <<regvars, impl, Options, FailureCount, SuccessCount, CircuitOpen,
                   LastCapturedAt, CircuitOpenedSince, ConsecutiveCounter, Ticker,
                   Mutex, now, success, tmp, currentStateOfCircuit, tpc, 
                   nTrue, nFalse, ticks, openAtTick, touched, openCalls, closedCalls>>

\* The branch taken stores m.CircuitOpen and m.CircuitOpenedSince.
UpdateStatus_Set(p) ==
    /\ ~crashed
    /\ pc[p] = "set"
    /\ CircuitOpen' = decision[p]
    /\ CircuitOpenedSince' = IF decision[p] THEN LastCapturedAt ELSE 0
    /\ pc' = [pc EXCEPT ![p] = "callback"]
    /\ UNCHANGED <<regvars, impl, Options, FailureCount, SuccessCount, LastCapturedAt,
                   ConsecutiveCounter, Ticker, Mutex, now, success, tmp,
                   currentStateOfCircuit, decision, tpc, crashed, nTrue,
                   nFalse, ticks, openAtTick, touched, openCalls, closedCalls>>

\* Which callback the end of UpdateStatus invokes: "open", "closed" or "none".
\* MonitorImplementation looks at m.CircuitOpen only; CircuitImplementation
\* also requires that the call changed it.
CallbackFired(i, o, before, open) ==
    IF i = MonitorImpl
    THEN IF open
         THEN (IF o.OnCircuitOpen THEN "open" ELSE "none")
         ELSE (IF o.OnCircuitClosed THEN "closed" ELSE "none")
    ELSE IF before # open /\ open
         THEN (IF o.OnCircuitOpen THEN "open" ELSE "none")
         ELSE IF before # open /\ ~open
              THEN (IF o.OnCircuitClosed THEN "closed" ELSE "none")
              ELSE "none"

\* The event UpdateStatus hands to the callback, built when the callback is
\* invoked: "CallbackEvent{Timestamp: m.LastCapturedAt, SuccessCount:
\* m.SuccessCount, FailureCount: m.FailureCount}".
CallbackEvent ==
    [Timestamp |-> LastCapturedAt,
     SuccessCount |-> SuccessCount,
     FailureCount |-> FailureCount]

\* The callback, then the return.
UpdateStatus_Callback(p) ==
    /\ ~crashed
    /\ pc[p] = "callback"
    /\ LET fired == CallbackFired(impl, Options, currentStateOfCircuit[p], CircuitOpen)
       IN  /\ openCalls' = IF fired = "open" THEN openCalls + 1 ELSE openCalls
           /\ closedCalls' = IF fired = "closed" THEN closedCalls + 1 ELSE closedCalls
    /\ Return(p)
    /\ UNCHANGED <<regvars, impl, Options, FailureCount, SuccessCount, CircuitOpen,
                   LastCapturedAt, CircuitOpenedSince, ConsecutiveCounter, Ticker,
                   now, tpc, crashed, ticks, openAtTick, touched>>

---------------------------------------------------------------------------
\* The ticker goroutine of MonitorImplementation (started by the first
\* UpdateStatus) and of CircuitImplementation (started by ConfigureCircuit):
\* "for range m.Ticker.C { ... }".  It takes no lock, so each store is a step.

TickerStep(from, to) ==
    /\ ~crashed
    /\ tpc = from
    /\ tpc' = to

\* A tick arrives once the ticker's period has passed.
Ticker_Tick ==
    /\ Ticker # 0
    /\ now >= Ticker
    /\ TickerStep("wait", "SuccessCount")
    /\ Ticker' = Ticker + IntervalInSeconds
    /\ ticks' = ticks + 1
    /\ openAtTick' = CircuitOpen
    /\ touched' = (InFlight > 0)
    /\ UNCHANGED <<regvars, impl, Options, FailureCount, SuccessCount, CircuitOpen,
                   LastCapturedAt, CircuitOpenedSince, ConsecutiveCounter, Mutex,
                   now, pc, success, tmp, currentStateOfCircuit, decision, crashed,
                   nTrue, nFalse, openCalls, closedCalls>>

Ticker_SuccessCount ==
    /\ TickerStep("SuccessCount", "FailureCount")
    /\ SuccessCount' = 0
    /\ UNCHANGED <<regvars, impl, Options, FailureCount, CircuitOpen, LastCapturedAt,
                   CircuitOpenedSince, ConsecutiveCounter, Ticker, Mutex, now, pc,
                   success, tmp, currentStateOfCircuit, decision, crashed, 
                   nTrue, nFalse, ticks, openAtTick, touched, openCalls, closedCalls>>

Ticker_FailureCount ==
    /\ TickerStep("FailureCount", "CircuitOpenedSince")
    /\ FailureCount' = 0
    /\ UNCHANGED <<regvars, impl, Options, SuccessCount, CircuitOpen, LastCapturedAt,
                   CircuitOpenedSince, ConsecutiveCounter, Ticker, Mutex, now, pc,
                   success, tmp, currentStateOfCircuit, decision, crashed, 
                   nTrue, nFalse, ticks, openAtTick, touched, openCalls, closedCalls>>

\* CircuitImplementation goes on to zero ConsecutiveCounter.
Ticker_CircuitOpenedSince ==
    /\ TickerStep("CircuitOpenedSince",
                  IF impl = CircuitImpl THEN "ConsecutiveCounter" ELSE "CircuitOpen")
    /\ CircuitOpenedSince' = 0
    /\ UNCHANGED <<regvars, impl, Options, FailureCount, SuccessCount, CircuitOpen,
                   LastCapturedAt, ConsecutiveCounter, Ticker, Mutex, now, pc,
                   success, tmp, currentStateOfCircuit, decision, crashed, nTrue,
                   nFalse, ticks, openAtTick, touched, openCalls, closedCalls>>

Ticker_ConsecutiveCounter ==
    /\ TickerStep("ConsecutiveCounter", "CircuitOpen")
    /\ ConsecutiveCounter' = 0
    /\ UNCHANGED <<regvars, impl, Options, FailureCount, SuccessCount, CircuitOpen,
                   LastCapturedAt, CircuitOpenedSince, Ticker, Mutex, now, pc,
                   success, tmp, currentStateOfCircuit, decision, crashed, nTrue,
                   nFalse, ticks, openAtTick, touched, openCalls, closedCalls>>

\* A faulty rollover that forgets to close the circuit.
Ticker_CircuitOpen_Forgotten ==
    /\ TickerStep("CircuitOpen", "OnCircuitClosed")
    /\ UNCHANGED <<regvars, impl, Options, FailureCount, SuccessCount, LastCapturedAt,
                   CircuitOpen, CircuitOpenedSince, ConsecutiveCounter, Ticker, Mutex,
                   now, pc, success, tmp, currentStateOfCircuit, decision, crashed,
                   nTrue, nFalse, ticks, openAtTick, touched, openCalls, closedCalls>>

Ticker_CircuitOpen ==
    /\ TickerStep("CircuitOpen", "OnCircuitClosed")
    /\ CircuitOpen' = FALSE
    /\ UNCHANGED <<regvars, impl, Options, FailureCount, SuccessCount, LastCapturedAt,
                   CircuitOpenedSince, ConsecutiveCounter, Ticker, Mutex, now, pc,
                   success, tmp, currentStateOfCircuit, decision, crashed, 
                   nTrue, nFalse, ticks, openAtTick, touched, openCalls, closedCalls>>

\* A faulty ticker that resets and notifies nobody.
TickerCallback_Never(i, o) == "skipped"

\* What the ticker's call of OnCircuitClosed does: "called", "skipped" (the
\* nil check of CircuitImplementation) or "panic" (MonitorImplementation calls
\* m.Options.OnCircuitClosed unchecked: a nil func call).
TickerCallback(i, o) ==
    IF o.OnCircuitClosed THEN "called"
    ELSE IF i = CircuitImpl THEN "skipped"
    ELSE "panic"

Ticker_OnCircuitClosed ==
    /\ ~crashed
    /\ tpc = "OnCircuitClosed"
    /\ LET did == TickerCallback(impl, Options)
       IN  /\ closedCalls' = IF did = "called" THEN closedCalls + 1 ELSE closedCalls
           /\ crashed' = (did = "panic")
           /\ tpc' = IF did = "panic" THEN "panic" ELSE "wait"
    /\ UNCHANGED <<regvars, impl, Options, FailureCount, SuccessCount, CircuitOpen,
                   LastCapturedAt, CircuitOpenedSince, ConsecutiveCounter, Ticker,
                   Mutex, now, pc, success, tmp, currentStateOfCircuit, decision,
                   nTrue, nFalse, ticks, openAtTick, touched, openCalls>>

---------------------------------------------------------------------------
\* IsCircuitOpen.

\* MonitorImplementation.IsCircuitOpen, CircuitImplementation.IsCircuitOpen:
\* "return m.CircuitOpen", a read without the lock that changes nothing.
IsCircuitOpen == CircuitOpen

\* IsCircuitOpen(name) of the package-level API: an open circuit whose
\* interval has passed is closed by the read.
StaleOpen(open, since, t) ==
    open /\ getStartOfIntervalTimestamp(t) - since >= IntervalInSeconds

IsCircuitOpen_ByName ==
    /\ ~crashed
    /\ impl = LegacyImpl
    /\ CircuitOpen' = IF StaleOpen(CircuitOpen, CircuitOpenedSince, now)
                      THEN FALSE
                      ELSE CircuitOpen
    /\ UNCHANGED <<regvars, impl, Options, FailureCount, SuccessCount, LastCapturedAt,
                   CircuitOpenedSince, ConsecutiveCounter, Ticker, Mutex, now, pc,
                   success, tmp, currentStateOfCircuit, decision, tpc, crashed,
                   nTrue, nFalse, ticks, openAtTick, touched, openCalls, closedCalls>>

---------------------------------------------------------------------------
\* UpdateMonitorStatusByName -> updateStatusByMonitor of the package-level
\* API: no lock and no callbacks; the model runs its calls one after another.

\* A faulty update that never resets the window.
CountedByMonitor_NoReset(s, f, reset, ok) ==
    IF ok THEN <<s + 1, f>> ELSE <<s, f + 1>>

\* The counters after the window reset and the increment: <<success, failure>>.
CountedByMonitor(s, f, reset, ok) ==
    LET s0 == IF reset THEN 0 ELSE s
        f0 == IF reset THEN 0 ELSE f
    IN  IF ok THEN <<s0 + 1, f0>> ELSE <<s0, f0 + 1>>

updateStatusByMonitor(ok) ==
    /\ ~crashed
    /\ impl = LegacyImpl
    /\ nTrue + nFalse < MaxCalls
    /\ LET currentTs == getStartOfIntervalTimestamp(now)
           reset == currentTs - LastCapturedAt >= IntervalInSeconds
           counted == CountedByMonitor(SuccessCount, FailureCount, reset, ok)
           since0 == IF reset THEN 0 ELSE CircuitOpenedSince
           open == /\ ~BelowMinimum(Options, counted[1], counted[2])
                   /\ ThresholdExceeded(Options, counted[2], counted[1])
       IN  /\ SuccessCount' = counted[1]
           /\ FailureCount' = counted[2]
           /\ LastCapturedAt' = currentTs
           /\ CircuitOpen' = open
           /\ CircuitOpenedSince' = IF open THEN currentTs ELSE since0
    /\ nTrue' = IF ok THEN nTrue + 1 ELSE nTrue
    /\ nFalse' = IF ok THEN nFalse ELSE nFalse + 1
    /\ UNCHANGED <<regvars, impl, Options, ConsecutiveCounter, Ticker, Mutex, now, pc,
                   success, tmp, currentStateOfCircuit, decision, tpc, crashed,
                   ticks, openAtTick, touched, openCalls, closedCalls>>

---------------------------------------------------------------------------
\* The wall clock moves on by half an interval, between calls: a call takes
\* far less than that.  (A tick may still arrive late, in the middle of a call.)

Clock ==
    /\ ~crashed
    /\ \A p \in Callers : pc[p] = "idle"
    /\ now < IntervalInSeconds + MaxClock * (IntervalInSeconds \div 2)
    /\ now' = now + IntervalInSeconds \div 2
    /\ UNCHANGED <<regvars, impl, Options, FailureCount, SuccessCount, CircuitOpen,
                   LastCapturedAt, CircuitOpenedSince, ConsecutiveCounter, Ticker,
                   Mutex, pc, success, tmp, currentStateOfCircuit, decision, tpc,
                   crashed, nTrue, nFalse, ticks, openAtTick, touched, openCalls, closedCalls>>

---------------------------------------------------------------------------

Next ==
    \/ \E p \in Callers, s \in BOOLEAN : UpdateStatus_Lock(p, s)
    \/ \E p \in Callers : UpdateStatus_Run(p)
    \/ \E p \in Callers : UpdateStatus_Read(p)
    \/ \E p \in Callers : UpdateStatus_Write(p)
    \/ \E p \in Callers : UpdateStatus_Minimum(p)
    \/ \E p \in Callers : UpdateStatus_Evaluate(p)
    \/ \E p \in Callers : UpdateStatus_Set(p)
    \/ \E p \in Callers : UpdateStatus_Callback(p)
    \/ Ticker_Tick
    \/ Ticker_SuccessCount
    \/ Ticker_FailureCount
    \/ Ticker_CircuitOpenedSince
    \/ Ticker_ConsecutiveCounter
    \/ Ticker_CircuitOpen
    \/ Ticker_OnCircuitClosed
    \/ IsCircuitOpen_ByName
    \/ \E ok \in BOOLEAN : updateStatusByMonitor(ok)
    \/ Clock

Spec == Init /\ [][Next]_vars

\* The ticker goroutine: time.Ticker delivers the tick once its period has
\* passed and the scheduler runs the goroutine's loop body to its end.
TickerNext ==
    \/ Ticker_Tick
    \/ Ticker_SuccessCount
    \/ Ticker_FailureCount
    \/ Ticker_CircuitOpenedSince
    \/ Ticker_ConsecutiveCounter
    \/ Ticker_CircuitOpen
    \/ Ticker_OnCircuitClosed

\* The monitors that have a ticker, with a minimum count that two calls
\* reach, under the calls of one goroutine (the mutex lets one call run at a
\* time anyway), the ticker and the clock.
InitFair == Init /\ Locked /\ Options.MinimumCount = 2

NextFair ==
    \/ \E s \in BOOLEAN : UpdateStatus_Lock(1, s)
    \/ \E p \in Callers : UpdateStatus_Run(p)
    \/ \E p \in Callers : UpdateStatus_Read(p)
    \/ \E p \in Callers : UpdateStatus_Write(p)
    \/ \E p \in Callers : UpdateStatus_Minimum(p)
    \/ \E p \in Callers : UpdateStatus_Evaluate(p)
    \/ \E p \in Callers : UpdateStatus_Set(p)
    \/ \E p \in Callers : UpdateStatus_Callback(p)
    \/ TickerNext
    \/ Clock

SpecFair == InitFair /\ [][NextFair]_vars /\ WF_vars(TickerNext)

---------------------------------------------------------------------------
\* The first statements of MonitorImplementation.UpdateStatus step by step:
\* the lock, the test "m.Ticker == nil", and the creation of the ticker with
\* its goroutine.  (UpdateStatus_Lock takes them as one step, which the mutex
\* allows; here the test and the creation are steps of their own, so that
\* what keeps two first calls from creating two tickers is the lock.)

\* "m.Mutex.Lock(); defer m.Mutex.Unlock()".
UpdateStatus_Acquire(p, s) ==
    /\ ~crashed
    /\ impl = MonitorImpl
    /\ pc[p] = "idle"
    /\ nTrue + nFalse + InFlight < MaxCalls
    /\ MutexFree
    /\ Mutex' = p
    /\ success' = [success EXCEPT ![p] = s]
    /\ touched' = TRUE
    /\ pc' = [pc EXCEPT ![p] = "Ticker"]
    /\ UNCHANGED <<regvars, impl, Options, FailureCount, SuccessCount, CircuitOpen,
                   LastCapturedAt, CircuitOpenedSince, ConsecutiveCounter, Ticker,
                   now, tmp, currentStateOfCircuit, decision, tpc, crashed, nTrue,
                   nFalse, ticks, openAtTick, openCalls, closedCalls>>

\* "if m.Ticker == nil": on to the creation, or past the block to
\* "m.LastCapturedAt = getTimestamp()".
UpdateStatus_TickerNil(p) ==
    /\ ~crashed
    /\ pc[p] = "Ticker"
    /\ IF Ticker = 0
       THEN /\ pc' = [pc EXCEPT ![p] = "NewTicker"]
            /\ UNCHANGED LastCapturedAt
       ELSE /\ pc' = [pc EXCEPT ![p] = "read"]
            /\ LastCapturedAt' = now
    /\ UNCHANGED <<regvars, impl, Options, FailureCount, SuccessCount, CircuitOpen,
                   CircuitOpenedSince, ConsecutiveCounter, Ticker, Mutex, now,
                   success, tmp, currentStateOfCircuit, decision, tpc, crashed,
                   nTrue, nFalse, ticks, openAtTick, touched, openCalls, closedCalls>>

\* "m.Ticker = time.NewTicker(...); go func() {...}()": a new ticker, whose
\* first tick is one interval away, replaces whatever m.Ticker held; then
\* "m.LastCapturedAt = getTimestamp()".
UpdateStatus_NewTicker(p) ==
    /\ ~crashed
    /\ pc[p] = "NewTicker"
    /\ Ticker' = now + IntervalInSeconds
    /\ LastCapturedAt' = now
    /\ pc' = [pc EXCEPT ![p] = "read"]
    /\ UNCHANGED <<regvars, impl, Options, FailureCount, SuccessCount, CircuitOpen,
                   CircuitOpenedSince, ConsecutiveCounter, Mutex, now, success, tmp,
                   currentStateOfCircuit, decision, tpc, crashed, nTrue, nFalse,
                   ticks, openAtTick, touched, openCalls, closedCalls>>

InitTicker == Init /\ impl = MonitorImpl

NextTicker ==
    \/ \E p \in Callers, s \in BOOLEAN : UpdateStatus_Acquire(p, s)
    \/ \E p \in Callers : UpdateStatus_TickerNil(p)
    \/ \E p \in Callers : UpdateStatus_NewTicker(p)
    \/ \E p \in Callers : UpdateStatus_Read(p)
    \/ \E p \in Callers : UpdateStatus_Write(p)
    \/ \E p \in Callers : UpdateStatus_Minimum(p)
    \/ \E p \in Callers : UpdateStatus_Evaluate(p)
    \/ \E p \in Callers : UpdateStatus_Set(p)
    \/ \E p \in Callers : UpdateStatus_Callback(p)
    \/ Ticker_Tick
    \/ Ticker_SuccessCount
    \/ Ticker_FailureCount
    \/ Ticker_CircuitOpenedSince
    \/ Ticker_CircuitOpen
    \/ Ticker_OnCircuitClosed
    \/ Clock

SpecTicker == InitTicker /\ [][NextTicker]_vars

---------------------------------------------------------------------------
\* Registration: TripperImplementation.AddMonitor, the package-level
\* AddMonitor and ConfigureCircuit.  The map is read and written without a
\* lock, so the lookup and the insertion are separate steps of a caller, and
\* an access that meets another caller's insertion may end the process with
\* the runtime's "concurrent map writes" / "concurrent map read and map write".

\* The options tried at registration: both callbacks supplied, a minimum
\* count of 0 or 2, and the percentages 0 and 101.
RegistryOptions ==
    {o \in CandidateOptions :
        o.OnCircuitOpen /\ o.MinimumCount <= 2 /\ o.Threshold \notin {34, 50}}

\* Options that every registration accepts.
BaseOptions ==
    [ThresholdType |-> ThresholdPercentage, Threshold |-> 50, MinimumCount |-> 2,
     IntervalInSeconds |-> IntervalInSeconds,
     OnCircuitOpen |-> TRUE, OnCircuitClosed |-> TRUE]

\* The arguments tried in one behaviour: either name, with BaseOptions or with
\* the options under test, which Options holds.  (The package-level AddMonitor
\* takes a whole Monitor; the callers of the model pass its state fields zero.)
Calls == [Name : Names, Options : {Options, BaseOptions}]

\* A faulty lookup that finds no name taken.
NameTaken_Never(c, name) == FALSE

\* A faulty lookup that finds every name taken.
NameTaken_Always(c, name) == TRUE

\* "if _, ok := t.Circuits[monitorOptions.Name]; ok".
NameTaken(c, name) == c[name] # 0

\* The registrations begun so far, by either caller.
AddsMade == adds[1] + adds[2]

\* Another caller is about to write the map.
MapRace(p) == \E q \in Callers \ {p} : apc[q] = "insert"

\* The monitor a registration builds.  ConfigureNewMonitor and ConfigureCircuit
\* set the options and leave the rest zero; the package-level AddMonitor
\* stores the caller's Monitor as passed.
NewMonitor(i, call) ==
    [Options |-> call.Options,
     SuccessCount |-> 0,
     FailureCount |-> 0,
     CircuitOpen |-> FALSE,
     LastCapturedAt |-> 0,
     CircuitOpenedSince |-> 0]

\* The call of p returns: error is "exists", "invalid" or "ok".
AddMonitor_Return(p, call, error, m) ==
    /\ apc' = [apc EXCEPT ![p] = "idle"]
    /\ acall' = [acall EXCEPT ![p] = call]
    /\ aret' = [aret EXCEPT ![p] = error]
    /\ amon' = [amon EXCEPT ![p] = m]
    /\ added' = IF error = "ok" THEN [added EXCEPT ![call.Name] = @ + 1] ELSE added

\* AddMonitor up to the insertion: the lookup of the name, the validation and
\* the construction of the monitor.
AddMonitor_Check(p) ==
    /\ ~fatal
    /\ impl # CircuitImpl
    /\ apc[p] = "idle"
    /\ AddsMade < MaxAdds
    /\ adds' = [adds EXCEPT ![p] = @ + 1]
    /\ \/ /\ MapRace(p)
          /\ fatal' = TRUE
          /\ UNCHANGED <<Circuits, monitors, apc, acall, aret, amon, added>>
       \/ \E call \in Calls :
            \/ /\ NameTaken(Circuits, call.Name)
               /\ AddMonitor_Return(p, call, "exists", 0)
               /\ UNCHANGED <<Circuits, monitors, fatal>>
            \/ /\ ~NameTaken(Circuits, call.Name)
               /\ ~Validate(impl, call.Options)
               /\ AddMonitor_Return(p, call, "invalid", 0)
               /\ UNCHANGED <<Circuits, monitors, fatal>>
            \/ /\ ~NameTaken(Circuits, call.Name)
               /\ Validate(impl, call.Options)
               /\ monitors' = Append(monitors, NewMonitor(impl, call))
               /\ amon' = [amon EXCEPT ![p] = Len(monitors) + 1]
               /\ apc' = [apc EXCEPT ![p] = "insert"]
               /\ acall' = [acall EXCEPT ![p] = call]
               /\ UNCHANGED <<Circuits, aret, added, fatal>>
    /\ UNCHANGED <<monvars, updates>>

\* "t.Circuits[monitorOptions.Name] = m; return m, nil".
AddMonitor_Insert(p) ==
    /\ ~fatal
    /\ apc[p] = "insert"
    /\ \/ /\ MapRace(p)
          /\ fatal' = TRUE
          /\ UNCHANGED <<Circuits, apc, acall, aret, amon, added>>
       \/ /\ Circuits' = [Circuits EXCEPT ![acall[p].Name] = amon[p]]
          /\ AddMonitor_Return(p, acall[p], "ok", amon[p])
          /\ UNCHANGED fatal
    /\ UNCHANGED <<monvars, monitors, adds, updates>>

\* ConfigureCircuit: the validation, then the circuit; there is no registry.
ConfigureCircuit(p) ==
    /\ ~fatal
    /\ impl = CircuitImpl
    /\ apc[p] = "idle"
    /\ AddsMade < MaxAdds
    /\ adds' = [adds EXCEPT ![p] = @ + 1]
    /\ \E call \in Calls :
         IF Validate(impl, call.Options)
         THEN /\ monitors' = Append(monitors, NewMonitor(impl, call))
              /\ AddMonitor_Return(p, call, "ok", Len(monitors) + 1)
         ELSE /\ AddMonitor_Return(p, call, "invalid", 0)
              /\ UNCHANGED monitors
    /\ UNCHANGED <<monvars, Circuits, updates, fatal>>

\* GetMonitor / GetMonitorByName: the address registered, 0 for the error.
GetMonitor(name) == Circuits[name]

\* A faulty GetAllMonitors that lists every name, registered or not.
GetAllMonitors_Everything == [n \in Names |-> Circuits[n]]

\* GetAllMonitors: "return t.Circuits" / "return circuits", the map itself:
\* the names present, each with the address stored for it.
GetAllMonitors == [n \in {k \in Names : Circuits[k] # 0} |-> Circuits[n]]

\* The monitor m after one uninterrupted status update at instant t.
Updated(i, m, ok, t) ==
    IF i = LegacyImpl
    THEN LET currentTs == getStartOfIntervalTimestamp(t)
             reset == currentTs - m.LastCapturedAt >= m.Options.IntervalInSeconds
             counted == CountedByMonitor(m.SuccessCount, m.FailureCount, reset, ok)
             open == /\ ~BelowMinimum(m.Options, counted[1], counted[2])
                     /\ ThresholdExceeded(m.Options, counted[2], counted[1])
         IN  [m EXCEPT !.SuccessCount = counted[1],
                       !.FailureCount = counted[2],
                       !.LastCapturedAt = currentTs,
                       !.CircuitOpen = open,
                       !.CircuitOpenedSince =
                           IF open THEN currentTs ELSE IF reset THEN 0 ELSE @]
    ELSE LET s == m.SuccessCount
             f == m.FailureCount
             counted == Counted(s, f, ok, IF ok THEN s ELSE f)
             open == ThresholdReached(m.Options, counted[2], counted[1], 0)
         IN  IF BelowMinimum(m.Options, counted[1], counted[2])
             THEN [m EXCEPT !.SuccessCount = counted[1],
                            !.FailureCount = counted[2],
                            !.LastCapturedAt = t]
             ELSE [m EXCEPT !.SuccessCount = counted[1],
                            !.FailureCount = counted[2],
                            !.LastCapturedAt = t,
                            !.CircuitOpen = open,
                            !.CircuitOpenedSince = IF open THEN t ELSE 0]

\* A faulty update whose counters are shared by all the monitors.
UpdatedMonitors_Shared(ms, a, i, ok, t) ==
    [b \in DOMAIN ms |-> Updated(i, ms[b], ok, t)]

\* The monitors after a status update of the one at address a: UpdateStatus
\* and updateStatusByMonitor write the fields of their receiver only.
UpdatedMonitors(ms, a, i, ok, t) ==
    [ms EXCEPT ![a] = Updated(i, @, ok, t)]

\* GetMonitor(name) then UpdateStatus(ok) on the monitor found, or
\* UpdateMonitorStatusByName(name, ok), within the monitor's first interval
\* and while no registration is under way; an unknown name is an error.
Registry_UpdateStatus(name, ok) ==
    /\ ~fatal
    /\ impl # CircuitImpl
    /\ updates < MaxUpdates
    /\ \A p \in Callers : apc[p] = "idle"
    /\ updates' = updates + 1
    /\ monitors' = IF GetMonitor(name) # 0
                   THEN UpdatedMonitors(monitors, GetMonitor(name), impl, ok, now)
                   ELSE monitors
    /\ UNCHANGED <<monvars, Circuits, apc, acall, aret, amon, adds, added, fatal>>

\* Options holds the options under test.
InitRegistry ==
    /\ impl \in Impls
    /\ Options \in RegistryOptions
    /\ FailureCount = 0
    /\ SuccessCount = 0
    /\ CircuitOpen = FALSE
    /\ LastCapturedAt = 0
    /\ CircuitOpenedSince = 0
    /\ ConsecutiveCounter = 0
    /\ now = IntervalInSeconds
    /\ Ticker = 0
    /\ Mutex = 0
    /\ pc = [p \in Callers |-> "idle"]
    /\ success = [p \in Callers |-> FALSE]
    /\ tmp = [p \in Callers |-> 0]
    /\ currentStateOfCircuit = [p \in Callers |-> FALSE]
    /\ decision = [p \in Callers |-> FALSE]
    /\ tpc = "wait"
    /\ crashed = FALSE
    /\ nTrue = 0
    /\ nFalse = 0
    /\ ticks = 0
    /\ openAtTick = FALSE
    /\ touched = FALSE
    /\ openCalls = 0
    /\ closedCalls = 0
    /\ RegistryEmpty

NextRegistry ==
    \/ \E p \in Callers : AddMonitor_Check(p)
    \/ \E p \in Callers : AddMonitor_Insert(p)
    \/ \E p \in Callers : ConfigureCircuit(p)
    \/ \E name \in Names, ok \in BOOLEAN : Registry_UpdateStatus(name, ok)

SpecRegistry == InitRegistry /\ [][NextRegistry]_vars

---------------------------------------------------------------------------
\* Vocabulary of the properties.

AllIdle == \A p \in Callers : pc[p] = "idle"

\* No call and no rollover is under way.
Quiescent == AllIdle /\ tpc = "wait"

\* The step is the return of an UpdateStatus call.
CallReturns == nTrue' + nFalse' = nTrue + nFalse + 1

\* Callers past the store of their increment.
Counting(ok) ==
    Cardinality({p \in Callers :
        success[p] = ok /\ pc[p] \in {"minimum", "evaluate", "set", "callback"}})

\* What a call of IsCircuitOpen returns in the current state.
IsCircuitOpenResult ==
    IF Locked
    THEN IsCircuitOpen
    ELSE CircuitOpen /\ ~StaleOpen(CircuitOpen, CircuitOpenedSince, now)

---------------------------------------------------------------------------
\* C1: when the callers' concurrent UpdateStatus calls have all returned and
\* no tick has arrived in between, SuccessCount + FailureCount is the number
\* of calls: no update is lost.
C1_NoLostUpdate ==
    (Locked /\ ticks = 0 /\ AllIdle) =>
        SuccessCount + FailureCount = nTrue + nFalse

C1_Witness ==
    /\ Locked /\ ticks = 0 /\ AllIdle
    /\ nTrue >= 1 /\ nFalse >= 2
    /\ SuccessCount + FailureCount = 3

\* C2: an UpdateStatus call that leaves the open/closed state as it found it
\* fires no callback (so one opening and one closing fire each callback once).
C2_EdgeTriggered ==
    [][\A p \in Callers :
         (pc[p] = "callback" /\ pc'[p] = "idle"
            /\ currentStateOfCircuit[p] = CircuitOpen) =>
         (openCalls' = openCalls /\ closedCalls' = closedCalls)]_vars

\* C3: in every reachable state, SuccessCount + FailureCount < MinimumCount
\* implies the circuit is closed.
C3_MinimumGate ==
    BelowMinimum(Options, SuccessCount, FailureCount) => ~CircuitOpen

\* C4: once every operation under way has finished, CircuitOpen implies
\* CircuitOpenedSince > 0 and a closed circuit has CircuitOpenedSince = 0.
C4_OpenedSinceAgrees ==
    Quiescent =>
        /\ CircuitOpen => CircuitOpenedSince > 0
        /\ ~CircuitOpen => CircuitOpenedSince = 0

\* C5: count policy: a status update that leaves at least MinimumCount
\* outcomes leaves the circuit open iff FailureCount >= Threshold.
C5_CountPolicy ==
    [][(/\ CallReturns
        /\ Options.ThresholdType = ThresholdCount
        /\ SuccessCount' + FailureCount' >= Options.MinimumCount) =>
       (CircuitOpen' <=> FailureCount' >= Options.Threshold)]_vars

\* C6: percentage policy: a status update that leaves at least MinimumCount
\* outcomes leaves the circuit open iff
\* floor(FailureCount * 100 / (FailureCount + SuccessCount)) >= Threshold.
C6_PercentagePolicy ==
    [][(/\ CallReturns
        /\ Options.ThresholdType = ThresholdPercentage
        /\ SuccessCount' + FailureCount' >= Options.MinimumCount) =>
       (CircuitOpen' <=>
          (FailureCount' * 100) \div (FailureCount' + SuccessCount')
             >= Options.Threshold)]_vars

\* C7: consecutive policy: a successful UpdateStatus sets the run to zero and
\* a failed one adds one to it, and a call that leaves at least MinimumCount
\* outcomes leaves the circuit open iff the run >= Threshold.
C7_ConsecutivePolicy ==
    [][/\ \A p \in Callers :
            (pc[p] = "run" /\ pc'[p] = "read") =>
            ConsecutiveCounter' = IF success[p] THEN 0 ELSE ConsecutiveCounter + 1
       /\ (/\ CallReturns
           /\ Options.ThresholdType = ThresholdConsecutive
           /\ SuccessCount' + FailureCount' >= Options.MinimumCount) =>
          (CircuitOpen' <=> ConsecutiveCounter' >= Options.Threshold)]_vars

\* C8: with no rollover, SuccessCount is the number of UpdateStatus(true)
\* calls that have counted their outcome and FailureCount the number of
\* UpdateStatus(false) calls that have: each call adds one to exactly one.
C8_CountsMatchCalls ==
    (Locked /\ ticks = 0) =>
        /\ SuccessCount = nTrue + Counting(TRUE)
        /\ FailureCount = nFalse + Counting(FALSE)

C8_Witness ==
    /\ impl = MonitorImpl /\ ticks = 0 /\ AllIdle
    /\ nTrue = 2 /\ nFalse = 1
    /\ SuccessCount = 2 /\ FailureCount = 1

\* C9: while fewer than MinimumCount UpdateStatus calls have been made on a
\* fresh monitor, IsCircuitOpen returns false.
C9_ClosedBelowMinimum ==
    (nTrue + nFalse + InFlight < Options.MinimumCount) => ~IsCircuitOpenResult

\* MinimumCount - 1 failures, which reach the threshold, and the circuit is closed.
C9_Witness ==
    /\ Locked /\ AllIdle
    /\ nTrue = 0 /\ nFalse = Options.MinimumCount - 1
    /\ FailureCount = nFalse /\ FailureCount >= 1
    /\ ThresholdReached(Options, FailureCount, SuccessCount, ConsecutiveCounter)
    /\ ~IsCircuitOpenResult

\* C10: when a tick found the circuit open with no UpdateStatus under way, and
\* none has run since, then once the rollover is done the counters and
\* CircuitOpenedSince are 0, IsCircuitOpen returns false and OnCircuitClosed
\* (when supplied) has been invoked for every tick.
C10_RolloverResets ==
    (Locked /\ ticks >= 1 /\ tpc = "wait" /\ ~touched /\ openAtTick) =>
        /\ SuccessCount = 0
        /\ FailureCount = 0
        /\ CircuitOpenedSince = 0
        /\ ~IsCircuitOpenResult
        /\ Options.OnCircuitClosed => closedCalls >= ticks

C10_Witness ==
    /\ Locked /\ ticks = 1 /\ tpc = "wait" /\ ~touched /\ openAtTick
    /\ Options.OnCircuitClosed /\ closedCalls >= 1
    /\ nFalse >= 2 /\ FailureCount = 0 /\ ~CircuitOpen

\* C11: an AddMonitor call for a name that is registered (with no insertion
\* by another caller racing with its lookup) returns the already-exists error
\* and no monitor, and leaves the registry and every monitor as they were.
C11_DuplicateRejected ==
    [][\A p \in Callers :
         (/\ impl # CircuitImpl
          /\ adds'[p] = adds[p] + 1
          /\ ~MapRace(p)
          /\ Circuits[acall'[p].Name] # 0) =>
         (/\ apc'[p] = "idle"
          /\ aret'[p] = "exists"
          /\ amon'[p] = 0
          /\ Circuits' = Circuits
          /\ monitors' = monitors)]_vars

\* A duplicate, with other options, of a monitor that has counted and is open.
C11_Witness ==
    \E p \in Callers :
        /\ aret[p] = "exists"
        /\ Circuits[acall[p].Name] # 0
        /\ monitors[Circuits[acall[p].Name]].CircuitOpen
        /\ monitors[Circuits[acall[p].Name]].FailureCount = 2
        /\ monitors[Circuits[acall[p].Name]].Options # acall[p].Options

\* C12: of the AddMonitor calls for one name at most one returns without an
\* error, and the registry maps the name to the monitor that call returned.
C12_AtomicRegistration ==
    (impl # CircuitImpl) =>
        /\ \A n \in Names : added[n] <= 1
        /\ \A p \in Callers :
             (apc[p] = "idle" /\ aret[p] = "ok") => Circuits[acall[p].Name] = amon[p]

\* C13: the rollover excludes UpdateStatus: while the ticker goroutine is
\* between its resets, no caller is inside UpdateStatus.
C13_RolloverExclusive ==
    (tpc \in {"FailureCount", "CircuitOpenedSince", "ConsecutiveCounter", "CircuitOpen"}) =>
        Mutex = 0

\* C14: no rollover calls a callback that was not supplied: the ticker
\* goroutine never panics on a nil OnCircuitClosed.
C14_NoNilCallback == tpc # "panic"

\* C15: with both callbacks supplied, the invocations of OnCircuitOpen exceed
\* those of OnCircuitClosed by 0 or 1 at every moment, and, when no call and
\* no rollover is under way, by 1 exactly when the circuit is open.
C15_CallbacksAlternate ==
    (Locked /\ Options.OnCircuitOpen /\ Options.OnCircuitClosed) =>
        /\ openCalls - closedCalls \in {0, 1}
        /\ Quiescent => (openCalls - closedCalls = 1 <=> CircuitOpen)

\* C16: IsCircuitOpen returns false when the circuit was opened in a window
\* that has ended: for the ticker's windows, opened before the instant of the
\* next tick, which the clock has reached; for the wall-clock windows, opened
\* in an interval before the current one.
C16_NoStaleOpen ==
    IF Locked
    THEN (/\ Ticker # 0
          /\ CircuitOpenedSince > 0
          /\ CircuitOpenedSince < Ticker
          /\ now >= Ticker) => ~IsCircuitOpenResult
    ELSE (/\ CircuitOpenedSince > 0
          /\ getStartOfIntervalTimestamp(now) > CircuitOpenedSince) =>
             ~IsCircuitOpenResult

\* C17: no step of the rollover changes the consecutive-failure run, and the
\* run goes to zero only by a successful UpdateStatus.
C17_RunSurvivesRollover ==
    [][/\ (tpc' # tpc) => ConsecutiveCounter' = ConsecutiveCounter
       /\ (ConsecutiveCounter # 0 /\ ConsecutiveCounter' = 0) =>
             \E p \in Callers : pc[p] = "run" /\ success[p] /\ pc'[p] = "read"]_vars

\* C18: a rollover invokes the supplied OnCircuitClosed iff the tick found the
\* circuit open.
C18_ClosedCallbackIffOpen ==
    [][(tpc = "OnCircuitClosed" /\ tpc' = "wait" /\ Options.OnCircuitClosed) =>
       (closedCalls' = closedCalls + 1 <=> openAtTick)]_vars

\* The options TripperImplementation.AddMonitor is to accept.
C19_Acceptable(o) ==
    /\ o.ThresholdType \in {ThresholdCount, ThresholdPercentage}
    /\ o.ThresholdType = ThresholdPercentage => (0 <= o.Threshold /\ o.Threshold <= 100)
    /\ o.ThresholdType = ThresholdCount => o.Threshold > 0
    /\ o.MinimumCount >= 1
    /\ o.ThresholdType = ThresholdCount => o.MinimumCount > o.Threshold
    /\ o.IntervalInSeconds >= 60
    /\ o.IntervalInSeconds % 60 = 0

\* A monitor with these options that has counted nothing and is closed.
C19_Fresh(m, o) ==
    /\ m.Options = o
    /\ m.SuccessCount = 0
    /\ m.FailureCount = 0
    /\ m.CircuitOpenedSince = 0
    /\ ~m.CircuitOpen

\* C19: TripperImplementation.AddMonitor for an unused name builds a monitor
\* iff the options are acceptable, and else returns an error and no monitor;
\* the monitor it then registers and returns is closed with zero counters.
C19_AddMonitorValidates ==
    [][\A p \in Callers :
         /\ (/\ impl = MonitorImpl
             /\ adds'[p] = adds[p] + 1
             /\ ~fatal'
             /\ Circuits[acall'[p].Name] = 0) =>
            IF C19_Acceptable(acall'[p].Options)
            THEN /\ apc'[p] = "insert"
                 /\ amon'[p] = Len(monitors) + 1
                 /\ Len(monitors') = Len(monitors) + 1
                 /\ C19_Fresh(monitors'[amon'[p]], acall'[p].Options)
            ELSE /\ apc'[p] = "idle"
                 /\ aret'[p] \notin {"ok", "exists"}
                 /\ amon'[p] = 0
                 /\ monitors' = monitors
                 /\ Circuits' = Circuits
         /\ (/\ impl = MonitorImpl
             /\ apc[p] = "insert"
             /\ apc'[p] = "idle") =>
            (/\ aret'[p] = "ok"
             /\ amon'[p] = amon[p]
             /\ Circuits'[acall[p].Name] = amon[p]
             /\ C19_Fresh(monitors'[amon[p]], acall[p].Options))]_vars

\* One caller has registered a monitor; the other was refused a count policy
\* whose minimum count equals its threshold, under a name still unused.
C19_Witness ==
    /\ impl = MonitorImpl
    /\ \E p, q \in Callers :
        /\ aret[p] = "ok"
        /\ Circuits[acall[p].Name] = amon[p]
        /\ aret[q] = "invalid"
        /\ Circuits[acall[q].Name] = 0
        /\ acall[q].Options.ThresholdType = ThresholdCount
        /\ acall[q].Options.Threshold > 0
        /\ acall[q].Options.MinimumCount = acall[q].Options.Threshold
        /\ acall[q].Options.IntervalInSeconds = IntervalInSeconds

\* C20: ConfigureCircuit with the consecutive policy and Threshold <= 0
\* returns an error and builds no circuit.
C20_ConsecutiveThresholdPositive ==
    [][\A p \in Callers :
         (/\ impl = CircuitImpl
          /\ adds'[p] = adds[p] + 1
          /\ acall'[p].Options.ThresholdType = ThresholdConsecutive
          /\ acall'[p].Options.Threshold <= 0) =>
         (aret'[p] = "invalid" /\ amon'[p] = 0 /\ monitors' = monitors)]_vars

\* C21: GetMonitor returns, for a name whose registration succeeded, the
\* monitor that AddMonitor call returned, and the does-not-exist error (0) for
\* a name no AddMonitor call has registered.
C21_GetMonitorReturnsRegistered ==
    (impl # CircuitImpl) =>
        /\ \A n \in Names : added[n] = 0 => GetMonitor(n) = 0
        /\ \A p \in Callers :
             (apc[p] = "idle" /\ aret[p] = "ok") =>
                 GetMonitor(acall[p].Name) = amon[p]

\* C22: the key set of GetAllMonitors is exactly the names for which an
\* AddMonitor call has succeeded (none on a new registry), every key is mapped
\* to the monitor GetMonitor returns for it, and a name whose calls were all
\* rejected is no key.
C22_AllMonitorsAreTheRegistered ==
    (impl # CircuitImpl) =>
        /\ DOMAIN GetAllMonitors = {n \in Names : added[n] >= 1}
        /\ \A n \in DOMAIN GetAllMonitors :
             GetAllMonitors[n] # 0 /\ GetAllMonitors[n] = GetMonitor(n)
        /\ \A p \in Callers :
             (apc[p] = "idle" /\ aret[p] = "invalid" /\ added[acall[p].Name] = 0) =>
                 acall[p].Name \notin DOMAIN GetAllMonitors

\* One name is registered and listed; the other was rejected and is not.
C22_Witness ==
    /\ impl # CircuitImpl
    /\ \E p, q \in Callers :
        /\ apc[p] = "idle" /\ aret[p] = "ok"
        /\ apc[q] = "idle" /\ aret[q] = "invalid"
        /\ acall[p].Name # acall[q].Name
        /\ DOMAIN GetAllMonitors = {acall[p].Name}
        /\ GetAllMonitors[acall[p].Name] = amon[p]

C24_OpenEventuallyCloses ==
    (Locked /\ ~crashed /\ CircuitOpen /\ Ticker # 0 /\ now >= Ticker)
        ~> \/ /\ ~CircuitOpen
               /\ SuccessCount = 0
               /\ FailureCount = 0
               /\ CircuitOpenedSince = 0
           \/ ~AllIdle

\* The rollover has just closed a circuit that three failures had opened,
\* and no call has been made since the tick.
C24_Witness ==
    /\ Locked /\ AllIdle /\ ~touched
    /\ tpc = "OnCircuitClosed" /\ openAtTick
    /\ nFalse = 3
    /\ ~CircuitOpen /\ SuccessCount = 0 /\ FailureCount = 0 /\ CircuitOpenedSince = 0

\* C25 as stated: an update after which SuccessCount + FailureCount is below
\* MinimumCount leaves CircuitOpen and CircuitOpenedSince unchanged; here for
\* updateStatusByMonitor.
C25_GateLeavesStateUnchanged ==
    [][(/\ impl = LegacyImpl
        /\ CallReturns
        /\ SuccessCount' + FailureCount' < Options.MinimumCount) =>
       (CircuitOpen' = CircuitOpen /\ CircuitOpenedSince' = CircuitOpenedSince)]_vars

\* C25, amended: an update after which SuccessCount + FailureCount is below
\* MinimumCount fires no callback and returns at the gate.  UpdateStatus of
\* MonitorImplementation and of CircuitImplementation then leaves CircuitOpen
\* and CircuitOpenedSince unchanged: none of its steps up to the gate writes
\* them.  updateStatusByMonitor stores CircuitOpen = false, which closes a
\* circuit still open from a window that has ended, and leaves
\* CircuitOpenedSince unchanged unless the update starts a new window, where
\* it is zeroed.
C25_GateOnlyCounts ==
    [][/\ \A p \in Callers :
            /\ (pc'[p] # pc[p] /\ pc[p] \notin {"set", "callback"}) =>
                  /\ CircuitOpen' = CircuitOpen
                  /\ CircuitOpenedSince' = CircuitOpenedSince
                  /\ openCalls' = openCalls
                  /\ closedCalls' = closedCalls
            /\ (/\ pc'[p] # pc[p]
                /\ pc[p] = "minimum"
                /\ SuccessCount + FailureCount < Options.MinimumCount) =>
                  pc'[p] = "idle"
       /\ (/\ impl = LegacyImpl
           /\ CallReturns
           /\ SuccessCount' + FailureCount' < Options.MinimumCount) =>
             /\ openCalls' = openCalls
             /\ closedCalls' = closedCalls
             /\ ~CircuitOpen'
             /\ CircuitOpenedSince' = IF LastCapturedAt' = LastCapturedAt
                                      THEN CircuitOpenedSince
                                      ELSE 0]_vars

\* The third call found the counters reset by a rollover that had not yet
\* closed the circuit; it counted one outcome and returned at the gate,
\* leaving the circuit open.
C25_Witness ==
    /\ Locked /\ AllIdle /\ ~crashed
    /\ nTrue + nFalse = 3
    /\ SuccessCount + FailureCount = 1
    /\ CircuitOpen /\ CircuitOpenedSince > 0
    /\ tpc = "CircuitOpen"

\* C26: a callback of UpdateStatus is invoked inside the call, before it
\* returns and while no other UpdateStatus proceeds, with an event that
\* carries the call's timestamp and the counters as they were right after
\* the call counted its outcome: the counter the call incremented holds the
\* value the call stored.
C26_CallbackEventOfTheCall ==
    [][\A p \in Callers :
         (/\ pc[p] = "callback"
          /\ pc'[p] = "idle"
          /\ (openCalls' # openCalls \/ closedCalls' # closedCalls)) =>
         (/\ Mutex = p
          /\ \A q \in Callers \ {p} : pc[q] = "idle"
          /\ CallbackEvent.Timestamp = now
          /\ (IF success[p] THEN CallbackEvent.SuccessCount
                            ELSE CallbackEvent.FailureCount) = tmp[p] + 1)]_vars

\* C27: the call that opens the circuit sets CircuitOpenedSince to its
\* timestamp, and a later call that finds the circuit open and leaves it open
\* does not overwrite CircuitOpenedSince (here with no rollover so far).
C27_OpenedSinceKept ==
    [][/\ \A p \in Callers :
            (ticks = 0 /\ pc[p] = "set" /\ pc'[p] = "callback" /\ CircuitOpen') =>
                CircuitOpenedSince' = IF CircuitOpen THEN CircuitOpenedSince ELSE now
       /\ (impl = LegacyImpl /\ CallReturns /\ CircuitOpen /\ CircuitOpen') =>
             CircuitOpenedSince' = CircuitOpenedSince]_vars

\* C28: an updateStatusByMonitor call whose window start lies at least
\* IntervalInSeconds after LastCapturedAt resets the counters and
\* CircuitOpenedSince before it counts: afterwards SuccessCount + FailureCount
\* is 1 (and CircuitOpenedSince is 0 unless this very call opened the
\* circuit); a call in the window of the previous one resets nothing and adds
\* exactly one to the total.
C28_WindowReset ==
    [][(impl = LegacyImpl /\ CallReturns) =>
       IF getStartOfIntervalTimestamp(now) - LastCapturedAt >= Options.IntervalInSeconds
       THEN /\ SuccessCount' + FailureCount' = 1
            /\ CircuitOpenedSince' =
                  IF CircuitOpen' THEN getStartOfIntervalTimestamp(now) ELSE 0
       ELSE /\ SuccessCount' + FailureCount' = SuccessCount + FailureCount + 1
            /\ SuccessCount' >= SuccessCount
            /\ FailureCount' >= FailureCount
            /\ CircuitOpenedSince' \in {CircuitOpenedSince, LastCapturedAt}]_vars

\* Two outcomes were counted in the window of 60 and opened the circuit; the
\* third call, in the window of 120, has reset them and counted one.
C28_Witness ==
    /\ impl = LegacyImpl
    /\ nFalse = 2 /\ nTrue = 1
    /\ LastCapturedAt = 120
    /\ SuccessCount = 1 /\ FailureCount = 0
    /\ CircuitOpenedSince = 0

\* C29: an AddMonitor call that returns an error (the name exists, or the
\* options are invalid) adds, removes and replaces no entry of the registry,
\* builds no monitor and starts no ticker; and after such a call, an
\* AddMonitor call with valid options for that name, when the name is not
\* registered, goes on to register its monitor and returns it with no error.
C29_RejectedAddChangesNothing ==
    [][\A p \in Callers :
         /\ (/\ adds'[p] = adds[p] + 1
             /\ apc'[p] = "idle"
             /\ aret'[p] \in {"exists", "invalid"}) =>
               /\ Circuits' = Circuits
               /\ monitors' = monitors
               /\ added' = added
               /\ Ticker' = Ticker
         /\ (/\ impl # CircuitImpl
             /\ adds'[p] = adds[p] + 1
             /\ ~fatal'
             /\ \E q \in Callers :
                   /\ apc[q] = "idle"
                   /\ aret[q] \in {"exists", "invalid"}
                   /\ acall[q].Name = acall'[p].Name
             /\ Circuits[acall'[p].Name] = 0
             /\ Validate(impl, acall'[p].Options)) =>
               /\ apc'[p] = "insert"
               /\ monitors'[amon'[p]].Options = acall'[p].Options
         /\ (apc[p] = "insert" /\ apc'[p] = "idle") =>
               /\ aret'[p] = "ok"
               /\ Circuits'[acall[p].Name] = amon[p]
               /\ \A n \in Names \ {acall[p].Name} : Circuits'[n] = Circuits[n]]_vars

\* The name that one caller was refused with invalid options is registered
\* by the other caller's call, with valid options.
C29_Witness ==
    /\ impl # CircuitImpl
    /\ \E p, q \in Callers :
        /\ p # q
        /\ apc[p] = "idle" /\ apc[q] = "idle"
        /\ aret[q] = "invalid"
        /\ aret[p] = "ok"
        /\ acall[p].Name = acall[q].Name
        /\ Circuits[acall[p].Name] = amon[p]
        /\ Len(monitors) = 1

\* C30: under the count policy and before any rollover of the window (no
\* tick so far; for the wall-clock window, the clock still in the window of
\* the last update), no step closes an open circuit, whatever the outcome
\* the following UpdateStatus calls report, and no step invokes
\* OnCircuitClosed while the circuit is open.
C30_CountStaysOpen ==
    [][(/\ Options.ThresholdType = ThresholdCount
        /\ CircuitOpen
        /\ IF Locked
           THEN ticks = 0
           ELSE getStartOfIntervalTimestamp(now) - LastCapturedAt
                    < Options.IntervalInSeconds) =>
       (CircuitOpen' /\ closedCalls' = closedCalls)]_vars

\* Threshold 1, minimum 2: the second call opened the circuit, a third
\* followed, one of the three was a success, and the circuit is open.
C30_Witness ==
    /\ Locked /\ AllIdle /\ ticks = 0
    /\ Options.ThresholdType = ThresholdCount
    /\ Options.Threshold = 1 /\ Options.MinimumCount = 2
    /\ Options.OnCircuitClosed
    /\ nTrue = 1 /\ nFalse = 2
    /\ CircuitOpen /\ closedCalls = 0 /\ openCalls >= 1

C32_CallsReturnAndUnlock ==
    Locked =>
        /\ crashed => tpc = "panic"
        /\ \A p \in Callers : Mutex = p => pc[p] # "idle"
        /\ AllIdle => Mutex = 0

\* C33: for the count and the percentage policy, once the calls of one
\* window have all returned and at least MinimumCount outcomes were reported,
\* SuccessCount, FailureCount and the state of the circuit are determined by
\* how many successes and how many failures were reported, whatever the order
\* and the interleaving of the calls.
C33_OrderIndependent ==
    (/\ Locked
     /\ ticks = 0
     /\ AllIdle
     /\ Options.ThresholdType \in {ThresholdCount, ThresholdPercentage}
     /\ nTrue + nFalse >= Options.MinimumCount) =>
        /\ SuccessCount = nTrue
        /\ FailureCount = nFalse
        /\ CircuitOpen <=>
              IF Options.ThresholdType = ThresholdCount
              THEN nFalse >= Options.Threshold
              ELSE (nFalse * 100) \div (nTrue + nFalse) >= Options.Threshold

\* One success and two failures against 50 percent, in whatever order: open.
C33_Witness ==
    /\ Locked /\ ticks = 0 /\ AllIdle
    /\ Options.ThresholdType = ThresholdPercentage
    /\ Options.Threshold = 50 /\ Options.MinimumCount = 3
    /\ nTrue = 1 /\ nFalse = 2
    /\ SuccessCount = 1 /\ FailureCount = 2
    /\ CircuitOpen

\* C34: the lazily created ticker is created at most once per monitor, also
\* when the first UpdateStatus calls run concurrently: a ticker is created
\* only while the monitor has none, by a call, and the monitor never loses
\* it; a monitor on which a call has got past the creation has its ticker,
\* and a monitor on which no call was made has none.
C34_OneLazyTicker ==
    [][/\ \A p \in Callers :
            (pc[p] = "NewTicker" /\ pc'[p] # pc[p]) => Ticker = 0
       /\ (Ticker = 0 /\ Ticker' # 0) => \E p \in Callers : pc[p] = "NewTicker"
       /\ Ticker # 0 => Ticker' # 0
       /\ (\/ nTrue' + nFalse' >= 1
           \/ \E p \in Callers : pc'[p] \notin {"idle", "Ticker", "NewTicker"}) =>
             Ticker' # 0
       /\ (nTrue + nFalse = 0 /\ AllIdle) => Ticker = 0]_vars

\* Both callers have made a call, one call is still under way, and the
\* ticker created by the first call is the monitor's.
C34_Witness ==
    /\ impl = MonitorImpl
    /\ ticks = 0
    /\ nTrue + nFalse = 2
    /\ \E p \in Callers : pc[p] = "read"
    /\ Ticker = IntervalInSeconds + IntervalInSeconds
    /\ now = IntervalInSeconds

====
